---- MODULE Spec2Model ----
(***************************************************************************)
(* Booking rules of the salon admin front end: the checks that the admin   *)
(* appointment screen and the admin work-schedule screen run in their      *)
(* handleCreate handlers before a create (POST) or an update (PATCH) is    *)
(* sent, together with the screen state those checks read.                 *)
(*                                                                         *)
(* One admin session is modelled.  The admin stack shows one screen at a   *)
(* time; `screen` says which one is mounted, and the component state of    *)
(* the other screen does not exist (its variables keep their initial       *)
(* values).  The REST backend is the store the screens load from and write *)
(* to; it accepts every write.  A handler runs up to its awaited request   *)
(* in one step and from the response on in another; the requests awaited   *)
(* are kept in `inflight`, and their responses arrive in any order.        *)
(* Further specifications take the submit handlers on any form and         *)
(* snapshot, the hour checks and the overlap tests on their own, and two   *)
(* admin devices on one backend.                                           *)
(*                                                                         *)
(* An ISO date-time string is the tuple <<day, hour, minute, second, ms>>  *)
(* of its local-time fields (day counted from the day before the session), *)
(* the empty string is <<>>, and a Date is its getTime() value in          *)
(* milliseconds since local midnight of day 0.                             *)
(***************************************************************************)
EXTENDS Integers, Sequences, FiniteSets, TLC

VARIABLES
    screen,               \* "appointments" or "schedules": the mounted screen
    apptStore,            \* backend collection behind /appointments
    shiftStore,           \* backend collection behind /work-schedules
    appointments,         \* useState: loaded appointment snapshot
    services,             \* useState: loaded service list
    employees,            \* useState: loaded employee list
    schedules,            \* useState: loaded work-schedule snapshot
    selectedCustomerId,   \* useState (appointments form)
    selectedServiceId,    \* useState (appointments form)
    selectedEmployeeId,   \* useState (form of the mounted screen)
    scheduledAt,          \* useState (appointments form), ISO string
    startAt,              \* useState (schedules form), ISO string
    endAt,                \* useState (schedules form), ISO string
    editingId,            \* useState (form of the mounted screen)
    showCreate,           \* useState: the form section is shown
    loading,              \* useState: a submit is in flight
    result,               \* outcome of the handleCreate run that led here
    now,                  \* the wall clock, what new Date() returns
    inflight,             \* requests of this screen awaiting their response
    actionDialog,         \* {x}: an Alert dialog built for booking x is open
    otherClient,          \* a second admin device: its snapshot, form, requests
    intervals,            \* <<a, b>>: two intervals <<start, end>> under the overlap test
    overlapAnswer,        \* the answers the overlap tests have given on them
    instant,              \* salon-hours.ts: ISO string of the Date under test
    withinForAppointment, \* <<b>>: isWithinSalonHoursForAppointment returned b
    withinForSchedule     \* <<b>>: isWithinSalonHoursForSchedule returned b

screenVars == <<screen, apptStore, shiftStore, appointments, services,
                employees, schedules, selectedCustomerId, selectedServiceId,
                selectedEmployeeId, scheduledAt, startAt, endAt, editingId,
                showCreate, loading, result, now>>

hoursVars == <<instant, withinForAppointment, withinForSchedule>>

overlapVars == <<intervals, overlapAnswer>>

asyncVars == <<inflight, actionDialog>>

\* what the handlers of the mounted screen never touch
pureVars == <<hoursVars, overlapVars>>

vars == <<screenVars, asyncVars, otherClient, pureVars>>

apptVars == <<apptStore, appointments, selectedCustomerId, selectedServiceId,
              scheduledAt>>

shiftVars == <<shiftStore, schedules, startAt, endAt>>

----------------------------------------------------------------------------
(* Values *)

Null == "null"

EmptyString == <<>>

Customers == {"c1"}

ApptIds == {"a1", "a2"}

ShiftIds == {"w1", "w2"}

\* Service documents of the backend; durationMinutes is optional, and the
\* services screen stores 0 when the duration field is left empty.
Service0 == [_id |-> "s0", durationMinutes |-> 0]

Service30 == [_id |-> "s30", durationMinutes |-> 30]

ServiceU == [_id |-> "sU"]

\* What the backend holds behind /users and /services when the session starts.
Backends ==
    { [employees |-> {"e1"}, services |-> {Service0, Service30}],
      [employees |-> {"e1"}, services |-> {ServiceU}],
      [employees |-> {"e1", "e2"}, services |-> {Service30}] }

\* requests one screen may have in flight at a time
MaxInFlight == 2

\* The form is edited, and time is let pass, between requests: no request is
\* in flight and no dialog is open.
Quiet == ~loading /\ actionDialog = {} /\ inflight = <<>>

RemoveAt(seq, k) == SubSeq(seq, 1, k - 1) \o SubSeq(seq, k + 1, Len(seq))

TerminalStatuses == {"completed", "cancelled"}

----------------------------------------------------------------------------
(* Dates *)

\* new Date(iso).getTime()
ParseDate(iso) ==
    ((((iso[1] * 24 + iso[2]) * 60 + iso[3]) * 60 + iso[4]) * 1000) + iso[5]

\* Date.prototype.getHours / getMinutes
getHours(d) == (d \div (60 * 60 * 1000)) % 24

getMinutes(d) == (d \div (60 * 1000)) % 60

\* Date.prototype.toISOString
toISOString(d) ==
    << d \div (24 * 60 * 60 * 1000), getHours(d), getMinutes(d),
       (d \div 1000) % 60, d % 1000 >>

At(day, hour, minute) == <<day, hour, minute, 0, 0>>

----------------------------------------------------------------------------
(* src/constants/salon-hours.ts *)

SALON_OPEN_HOUR == 7

SALON_CLOSE_HOUR == 21

minutesSinceMidnight(d) == getHours(d) * 60 + getMinutes(d)

\* Variants of the two hour checks with the other one's bound at closing time
isWithinSalonHoursForAppointment_closeIncluded(d) ==
    LET m == minutesSinceMidnight(d)
    IN  m >= SALON_OPEN_HOUR * 60 /\ m <= SALON_CLOSE_HOUR * 60

isWithinSalonHoursForSchedule_closeExcluded(d) ==
    LET m == minutesSinceMidnight(d)
    IN  m >= SALON_OPEN_HOUR * 60 /\ m < SALON_CLOSE_HOUR * 60

isWithinSalonHoursForAppointment(d) ==
    LET m == minutesSinceMidnight(d)
    IN  m >= SALON_OPEN_HOUR * 60 /\ m < SALON_CLOSE_HOUR * 60

isWithinSalonHoursForSchedule(d) ==
    LET m == minutesSinceMidnight(d)
    IN  m >= SALON_OPEN_HOUR * 60 /\ m <= SALON_CLOSE_HOUR * 60

----------------------------------------------------------------------------
(* Admin appointments screen: src/app/(admin)/appointments.tsx *)

\* services.find((item) => item._id === selectedServiceId)?.durationMinutes ?? 60
serviceDuration(svcs, serviceId) ==
    LET found == { s \in svcs : s._id = serviceId }
    IN  IF found = {} THEN 60
        ELSE LET s == CHOOSE x \in found : TRUE
             IN  IF "durationMinutes" \in DOMAIN s THEN s.durationMinutes ELSE 60

Max(a, b) == IF a >= b THEN a ELSE b

\* targetStart and targetEnd of the candidate
apptTargetStart(at) == ParseDate(at)

apptTargetEnd(svcs, serviceId, at) ==
    apptTargetStart(at) + Max(serviceDuration(svcs, serviceId), 1) * 60 * 1000

\* duration, startValue and endValue of a stored appointment in the scan
itemDuration(item) ==
    IF "durationMinutes" \in DOMAIN item.service /\ item.service.durationMinutes > 0
    THEN item.service.durationMinutes
    ELSE 60

itemStart(item) == ParseDate(item.scheduledAt)

itemEnd(item) == itemStart(item) + itemDuration(item) * 60 * 1000

\* Variants of the scan callback, each with one check changed or left out.
apptItemConflicts_anyStatus(item, editId, employeeId, targetStart, targetEnd) ==
    IF editId # Null /\ item._id = editId THEN FALSE
    ELSE IF item.assignedEmployee # employeeId THEN FALSE
    ELSE itemStart(item) < targetEnd /\ itemEnd(item) > targetStart

apptItemConflicts_closed(item, editId, employeeId, targetStart, targetEnd) ==
    IF editId # Null /\ item._id = editId THEN FALSE
    ELSE IF item.assignedEmployee # employeeId THEN FALSE
    ELSE IF item.status = "completed" \/ item.status = "cancelled" THEN FALSE
    ELSE itemStart(item) <= targetEnd /\ itemEnd(item) >= targetStart

apptItemConflicts_withSelf(item, editId, employeeId, targetStart, targetEnd) ==
    IF item.assignedEmployee # employeeId THEN FALSE
    ELSE IF item.status = "completed" \/ item.status = "cancelled" THEN FALSE
    ELSE itemStart(item) < targetEnd /\ itemEnd(item) > targetStart

apptItemConflicts_cancelledBlocks(item, editId, employeeId, targetStart, targetEnd) ==
    IF editId # Null /\ item._id = editId THEN FALSE
    ELSE IF item.assignedEmployee # employeeId THEN FALSE
    ELSE IF item.status = "completed" THEN FALSE
    ELSE itemStart(item) < targetEnd /\ itemEnd(item) > targetStart

apptItemConflicts_anyEmployee(item, editId, employeeId, targetStart, targetEnd) ==
    IF editId # Null /\ item._id = editId THEN FALSE
    ELSE IF item.status = "completed" \/ item.status = "cancelled" THEN FALSE
    ELSE itemStart(item) < targetEnd /\ itemEnd(item) > targetStart

\* A variant of the overlap test that counts a stored booking starting at the
\* candidate's end.
apptOverlapForm_touching(startValue, endValue, targetStart, targetEnd) ==
    startValue <= targetEnd /\ endValue > targetStart

\* return startValue < targetEnd && endValue > targetStart
apptOverlapForm(startValue, endValue, targetStart, targetEnd) ==
    startValue < targetEnd /\ endValue > targetStart

\* The callback of appointments.some(...)
apptItemConflicts(item, editId, employeeId, targetStart, targetEnd) ==
    IF editId # Null /\ item._id = editId THEN FALSE
    ELSE IF item.assignedEmployee # employeeId THEN FALSE
    ELSE IF item.status = "completed" \/ item.status = "cancelled" THEN FALSE
    ELSE apptOverlapForm(itemStart(item), itemEnd(item), targetStart, targetEnd)

apptConflict(appts, svcs, serviceId, employeeId, at, editId) ==
    \E item \in appts :
        apptItemConflicts(item, editId, employeeId, apptTargetStart(at),
                          apptTargetEnd(svcs, serviceId, at))

\* Variants of the first two checks: one field forgotten, a misspelt status.
apptMissingFields_noService(customerId, serviceId, at) ==
    customerId = Null \/ at = EmptyString

apptEditingCompleted_typo(editId, appts) ==
    /\ editId # Null
    /\ \E existing \in appts : existing._id = editId /\ existing.status = "complete"

apptEditingCompleted_terminal(editId, appts) ==
    /\ editId # Null
    /\ \E existing \in appts :
           existing._id = editId /\ existing.status \in {"completed", "cancelled"}

apptInPast_alsoEdits(editId, at, nowD) ==
    ParseDate(at) < nowD

\* if (!selectedCustomerId || !selectedServiceId || !scheduledAt)
apptMissingFields(customerId, serviceId, at) ==
    customerId = Null \/ serviceId = Null \/ at = EmptyString

\* if (editingId) { existing = appointments.find(...); existing?.status === 'completed' }
apptEditingCompleted(editId, appts) ==
    /\ editId # Null
    /\ \E existing \in appts : existing._id = editId /\ existing.status = "completed"

\* if (!editingId && new Date(scheduledAt) < new Date())
apptInPast(editId, at, nowD) ==
    editId = Null /\ ParseDate(at) < nowD

\* A variant of the checks without the overlap scan.
validateAppointment_noScan(customerId, serviceId, employeeId, at, editId, appts, svcs, nowD) ==
    IF apptMissingFields(customerId, serviceId, at)
    THEN "errorAppointmentRequired"
    ELSE IF apptEditingCompleted(editId, appts)
    THEN "errorAppointmentCompleted"
    ELSE IF apptInPast(editId, at, nowD)
    THEN "errorAppointmentPast"
    ELSE IF ~isWithinSalonHoursForAppointment(ParseDate(at))
    THEN "errorAppointmentOutsideHours"
    ELSE "Ok"

\* A variant of the checks whose answer also depends on the requests in
\* flight, which are not among its inputs.
validateAppointment_readsInFlight(customerId, serviceId, employeeId, at, editId, appts, svcs, nowD) ==
    IF apptMissingFields(customerId, serviceId, at)
    THEN "errorAppointmentRequired"
    ELSE IF apptEditingCompleted(editId, appts)
    THEN "errorAppointmentCompleted"
    ELSE IF apptInPast(editId, at, nowD)
    THEN "errorAppointmentPast"
    ELSE IF ~isWithinSalonHoursForAppointment(ParseDate(at))
    THEN "errorAppointmentOutsideHours"
    ELSE IF inflight # <<>>
            \/ (employeeId # Null
                /\ apptConflict(appts, svcs, serviceId, employeeId, at, editId))
    THEN "errorScheduleConflict"
    ELSE "Ok"

\* A variant of the checks that scans for overlaps before the past check.
validateAppointment_scanFirst(customerId, serviceId, employeeId, at, editId, appts, svcs, nowD) ==
    IF apptMissingFields(customerId, serviceId, at)
    THEN "errorAppointmentRequired"
    ELSE IF apptEditingCompleted(editId, appts)
    THEN "errorAppointmentCompleted"
    ELSE IF employeeId # Null
            /\ apptConflict(appts, svcs, serviceId, employeeId, at, editId)
    THEN "errorScheduleConflict"
    ELSE IF apptInPast(editId, at, nowD)
    THEN "errorAppointmentPast"
    ELSE IF ~isWithinSalonHoursForAppointment(ParseDate(at))
    THEN "errorAppointmentOutsideHours"
    ELSE "Ok"

\* A variant of the checks that holds the end of the service to the hours too.
validateAppointment_endTested(customerId, serviceId, employeeId, at, editId, appts, svcs, nowD) ==
    IF apptMissingFields(customerId, serviceId, at)
    THEN "errorAppointmentRequired"
    ELSE IF apptEditingCompleted(editId, appts)
    THEN "errorAppointmentCompleted"
    ELSE IF apptInPast(editId, at, nowD)
    THEN "errorAppointmentPast"
    ELSE IF \/ ~isWithinSalonHoursForAppointment(ParseDate(at))
            \/ ~isWithinSalonHoursForSchedule(apptTargetEnd(svcs, serviceId, at))
    THEN "errorAppointmentOutsideHours"
    ELSE IF employeeId # Null
            /\ apptConflict(appts, svcs, serviceId, employeeId, at, editId)
    THEN "errorScheduleConflict"
    ELSE "Ok"

\* A variant of the checks that runs the overlap scan without an employee.
validateAppointment_scanUnassigned(customerId, serviceId, employeeId, at, editId, appts, svcs, nowD) ==
    IF apptMissingFields(customerId, serviceId, at)
    THEN "errorAppointmentRequired"
    ELSE IF apptEditingCompleted(editId, appts)
    THEN "errorAppointmentCompleted"
    ELSE IF apptInPast(editId, at, nowD)
    THEN "errorAppointmentPast"
    ELSE IF ~isWithinSalonHoursForAppointment(ParseDate(at))
    THEN "errorAppointmentOutsideHours"
    ELSE IF apptConflict(appts, svcs, serviceId, employeeId, at, editId)
    THEN "errorScheduleConflict"
    ELSE "Ok"

\* The checks of handleCreate, in the order of the code: the message key of the
\* first check that returns, or "Ok" when the handler goes on to the request.
validateAppointment(customerId, serviceId, employeeId, at, editId, appts, svcs, nowD) ==
    IF apptMissingFields(customerId, serviceId, at)
    THEN "errorAppointmentRequired"
    ELSE IF apptEditingCompleted(editId, appts)
    THEN "errorAppointmentCompleted"
    ELSE IF apptInPast(editId, at, nowD)
    THEN "errorAppointmentPast"
    ELSE IF ~isWithinSalonHoursForAppointment(ParseDate(at))
    THEN "errorAppointmentOutsideHours"
    ELSE IF employeeId # Null
            /\ apptConflict(appts, svcs, serviceId, employeeId, at, editId)
    THEN "errorScheduleConflict"
    ELSE "Ok"

\* Times the date-time picker of the appointment form can deliver.
ApptPickerTimes == { At(1, 10, 0), At(1, 10, 30), At(1, 21, 0) }

\* The backend owns the status of an appointment: between two loads it may
\* have moved any live appointment to a terminal status.
statusMoves(a) ==
    IF a.status \in TerminalStatuses
    THEN {a}
    ELSE {a} \cup { [a EXCEPT !.status = st] : st \in TerminalStatuses }

apptStoreMoves(store) ==
    LET all == UNION { statusMoves(a) : a \in store }
    IN  { { f[a] : a \in store } :
          f \in { g \in [store -> all] : \A a \in store : g[a] \in statusMoves(a) } }

\* The form values handleCreate and the toggle button set.
apptFormReset ==
    /\ selectedCustomerId' = Null
    /\ selectedServiceId' = Null
    /\ selectedEmployeeId' = Null
    /\ scheduledAt' = toISOString(now)
    /\ editingId' = Null

\* onPress of the button under the form
Appt_toggleCreate ==
    /\ screen = "appointments" /\ Quiet
    /\ showCreate' = ~showCreate
    /\ IF showCreate
       THEN apptFormReset
       ELSE UNCHANGED <<selectedCustomerId, selectedServiceId, selectedEmployeeId,
                        scheduledAt, editingId>>
    /\ result' = "none"
    /\ UNCHANGED <<screen, pureVars, otherClient, asyncVars, apptStore, appointments, services, employees,
                   shiftVars, loading, now>>

\* onSelect / onClear of the three SearchSelect fields
setSelectedCustomerId(c) ==
    /\ screen = "appointments" /\ Quiet /\ showCreate
    /\ selectedCustomerId' = c
    /\ result' = "none"
    /\ UNCHANGED <<screen, pureVars, otherClient, asyncVars, apptStore, appointments, services, employees,
                   shiftVars, selectedServiceId, selectedEmployeeId, scheduledAt,
                   editingId, showCreate, loading, now>>

setSelectedServiceId(s) ==
    /\ screen = "appointments" /\ Quiet /\ showCreate
    /\ selectedServiceId' = s
    /\ result' = "none"
    /\ UNCHANGED <<screen, pureVars, otherClient, asyncVars, apptStore, appointments, services, employees,
                   shiftVars, selectedCustomerId, selectedEmployeeId, scheduledAt,
                   editingId, showCreate, loading, now>>

Appt_setSelectedEmployeeId(e) ==
    /\ screen = "appointments" /\ Quiet /\ showCreate
    /\ selectedEmployeeId' = e
    /\ result' = "none"
    /\ UNCHANGED <<screen, pureVars, otherClient, asyncVars, apptStore, appointments, services, employees,
                   shiftVars, selectedCustomerId, selectedServiceId, scheduledAt,
                   editingId, showCreate, loading, now>>

\* onChange of the DateTimeInput; minimumDate is new Date() unless editing
setScheduledAt(t) ==
    /\ screen = "appointments" /\ Quiet /\ showCreate
    /\ editingId = Null => ~(ParseDate(t) < now)
    /\ scheduledAt' = toISOString(ParseDate(t))
    /\ result' = "none"
    /\ UNCHANGED <<screen, pureVars, otherClient, asyncVars, apptStore, appointments, services, employees,
                   shiftVars, selectedCustomerId, selectedServiceId,
                   selectedEmployeeId, editingId, showCreate, loading, now>>

\* handleAppointmentAction: a completed appointment gets the notice only,
\* any other one the dialog with the edit and delete buttons, built for the
\* appointment as this render's snapshot has it.
handleAppointmentAction(appointmentId) ==
    /\ screen = "appointments" /\ actionDialog = {}
    /\ \E appointment \in appointments :
           /\ appointment._id = appointmentId
           /\ actionDialog' = IF appointment.status = "completed"
                              THEN {} ELSE {appointment}
    /\ result' = "none"
    /\ UNCHANGED <<screen, pureVars, otherClient, inflight, apptVars, services,
                   employees, shiftVars, selectedEmployeeId, editingId,
                   showCreate, loading, now>>

\* the close button of the dialog
Appt_dialogClose ==
    /\ screen = "appointments" /\ actionDialog # {}
    /\ actionDialog' = {}
    /\ result' = "none"
    /\ UNCHANGED <<screen, pureVars, otherClient, inflight, apptVars, services,
                   employees, shiftVars, selectedEmployeeId, editingId,
                   showCreate, loading, now>>

\* the edit button of the dialog: handleEdit(appointment)
Appt_handleEdit(item) ==
    /\ screen = "appointments" /\ item \in actionDialog
    /\ actionDialog' = {}
    /\ showCreate' = TRUE
    /\ editingId' = item._id
    /\ selectedCustomerId' = item.customer
    /\ selectedServiceId' = item.service._id
    /\ selectedEmployeeId' = item.assignedEmployee
    /\ scheduledAt' = item.scheduledAt
    /\ result' = "none"
    /\ UNCHANGED <<screen, pureVars, otherClient, inflight, apptStore,
                   appointments, services, employees, shiftVars, loading, now>>

\* the delete button of the dialog: handleDelete(appointment._id) up to its
\* await, the DELETE request
Appt_handleDelete(item) ==
    /\ screen = "appointments" /\ item \in actionDialog
    /\ Len(inflight) < MaxInFlight
    /\ actionDialog' = {}
    /\ inflight' = Append(inflight, [method |-> "DELETE", id |-> item._id])
    /\ result' = "none"
    /\ UNCHANGED <<screen, pureVars, otherClient, apptVars, services, employees,
                   shiftVars, selectedEmployeeId, editingId, showCreate, loading,
                   now>>

\* handleDelete after the DELETE resolved: load() replaces the snapshot
Appt_handleDeleteDone(k) ==
    /\ screen = "appointments"
    /\ k \in 1..Len(inflight) /\ inflight[k].method = "DELETE"
    /\ \E a \in apptStore : a._id = inflight[k].id
    /\ apptStore' \in apptStoreMoves({ a \in apptStore : a._id # inflight[k].id })
    /\ appointments' = apptStore'
    /\ inflight' = RemoveAt(inflight, k)
    /\ result' = "none"
    /\ UNCHANGED <<screen, pureVars, otherClient, actionDialog, services,
                   employees, shiftVars, selectedCustomerId, selectedServiceId,
                   selectedEmployeeId, scheduledAt, editingId, showCreate,
                   loading, now>>

\* handleDelete when the backend no longer has the appointment: the catch
Appt_handleDeleteFailed(k) ==
    /\ screen = "appointments"
    /\ k \in 1..Len(inflight) /\ inflight[k].method = "DELETE"
    /\ ~\E a \in apptStore : a._id = inflight[k].id
    /\ inflight' = RemoveAt(inflight, k)
    /\ result' = "none"
    /\ UNCHANGED <<screen, pureVars, otherClient, actionDialog, apptVars,
                   services, employees, shiftVars, selectedEmployeeId, editingId,
                   showCreate, loading, now>>

\* The request handleCreate sends for the form as it stands: PATCH when
\* editing, POST otherwise; a null employee is sent as undefined.
apptRequest ==
    [ method |-> IF editingId # Null THEN "PATCH" ELSE "POST",
      id |-> editingId,
      customerId |-> selectedCustomerId,
      serviceId |-> selectedServiceId,
      assignedEmployeeId |-> selectedEmployeeId,
      scheduledAt |-> scheduledAt ]

\* A variant of handleCreate that sends the request whatever the checks say.
Appt_handleCreate_alwaysSends ==
    /\ screen = "appointments" /\ actionDialog = {} /\ showCreate
    /\ Len(inflight) < MaxInFlight
    /\ result' = validateAppointment(selectedCustomerId, selectedServiceId,
                     selectedEmployeeId, scheduledAt, editingId,
                     appointments, services, now)
    /\ loading' = TRUE
    /\ inflight' = Append(inflight, apptRequest)
    /\ UNCHANGED <<screen, pureVars, otherClient, actionDialog, apptVars,
                   services, employees, shiftVars, selectedEmployeeId, editingId,
                   showCreate, now>>

\* handleCreate up to its first await: the checks, then setError and return,
\* or setLoading(true) and the request.  The button stays enabled while
\* loading is true.
Appt_handleCreate ==
    /\ screen = "appointments" /\ actionDialog = {} /\ showCreate
    /\ Len(inflight) < MaxInFlight
    /\ result' = validateAppointment(selectedCustomerId, selectedServiceId,
                     selectedEmployeeId, scheduledAt, editingId,
                     appointments, services, now)
    /\ loading' = (loading \/ result' = "Ok")
    /\ inflight' = IF result' = "Ok" THEN Append(inflight, apptRequest)
                   ELSE inflight
    /\ UNCHANGED <<screen, pureVars, otherClient, actionDialog, apptVars,
                   services, employees, shiftVars, selectedEmployeeId, editingId,
                   showCreate, now>>

\* The record the backend keeps for a POST /appointments body
apptCreated(id, req) ==
    [ _id |-> id,
      customer |-> req.customerId,
      service |-> CHOOSE s \in services : s._id = req.serviceId,
      assignedEmployee |-> req.assignedEmployeeId,
      scheduledAt |-> req.scheduledAt,
      status |-> "scheduled" ]

\* The record the backend keeps for a PATCH /appointments/:id body; a null
\* employee is sent as undefined, which JSON drops, so the field is not updated.
apptPatched(old, req) ==
    [ old EXCEPT !.customer = req.customerId,
                 !.service = CHOOSE s \in services : s._id = req.serviceId,
                 !.assignedEmployee =
                     IF req.assignedEmployeeId = Null THEN @
                     ELSE req.assignedEmployeeId,
                 !.scheduledAt = req.scheduledAt ]

\* Whether the backend takes a request: an update needs its record, a create
\* a free id of the bounded collection.
apptWriteTaken(req) ==
    IF req.method = "PATCH"
    THEN \E old \in apptStore : old._id = req.id
    ELSE \E id \in ApptIds : \A a \in apptStore : a._id # id

apptWritten(req) ==
    IF req.method = "PATCH"
    THEN { IF a._id = req.id THEN apptPatched(a, req) ELSE a : a \in apptStore }
    ELSE apptStore \cup
         { apptCreated(CHOOSE id \in ApptIds : \A a \in apptStore : a._id # id,
                       req) }

\* handleCreate after its request resolved: the form is reset, load() replaces
\* the snapshot, the form is closed after a create, loading is cleared
Appt_handleCreateDone(k) ==
    /\ screen = "appointments"
    /\ k \in 1..Len(inflight) /\ inflight[k].method \in {"POST", "PATCH"}
    /\ apptWriteTaken(inflight[k])
    /\ apptStore' \in apptStoreMoves(apptWritten(inflight[k]))
    /\ appointments' = apptStore'
    /\ apptFormReset
    /\ showCreate' = IF inflight[k].method = "POST" THEN FALSE ELSE showCreate
    /\ loading' = FALSE
    /\ inflight' = RemoveAt(inflight, k)
    /\ result' = "none"
    /\ UNCHANGED <<screen, pureVars, otherClient, actionDialog, services,
                   employees, shiftVars, now>>

\* handleCreate when its request is rejected: the catch and finally branches
Appt_handleCreateFailed(k) ==
    /\ screen = "appointments"
    /\ k \in 1..Len(inflight) /\ inflight[k].method \in {"POST", "PATCH"}
    /\ ~apptWriteTaken(inflight[k])
    /\ loading' = FALSE
    /\ inflight' = RemoveAt(inflight, k)
    /\ result' = "none"
    /\ UNCHANGED <<screen, pureVars, otherClient, actionDialog, apptVars,
                   services, employees, shiftVars, selectedEmployeeId, editingId,
                   showCreate, now>>

----------------------------------------------------------------------------
(* Admin work-schedule screen: src/app/(admin)/schedules.tsx *)

\* Variants of the scan callback, each with one check changed or left out.
shiftItemOverlaps_startInside(s, editId, employeeId, targetStart, targetEnd) ==
    IF s.employee # employeeId THEN FALSE
    ELSE IF editId # Null /\ s._id = editId THEN FALSE
    ELSE ParseDate(s.startAt) <= targetStart /\ targetStart < ParseDate(s.endAt)

\* return targetStart < sEnd && targetEnd > sStart
shiftOverlapForm(sStart, sEnd, targetStart, targetEnd) ==
    targetStart < sEnd /\ targetEnd > sStart

\* The callback of schedules.some(...)
shiftItemOverlaps(s, editId, employeeId, targetStart, targetEnd) ==
    IF s.employee # employeeId THEN FALSE
    ELSE IF editId # Null /\ s._id = editId THEN FALSE
    ELSE shiftOverlapForm(ParseDate(s.startAt), ParseDate(s.endAt),
                          targetStart, targetEnd)

shiftOverlap(scheds, employeeId, from, to, editId) ==
    \E s \in scheds :
        shiftItemOverlaps(s, editId, employeeId, ParseDate(from), ParseDate(to))

\* A variant of the checks without the test of the interval's direction.
validateShift_noIntervalCheck(employeeId, from, to, editId, scheds, nowD) ==
    IF employeeId = Null \/ from = EmptyString \/ to = EmptyString
    THEN "errorScheduleRequired"
    ELSE IF editId = Null /\ (ParseDate(from) < nowD \/ ParseDate(to) < nowD)
    THEN "errorSchedulePast"
    ELSE IF \/ ~isWithinSalonHoursForSchedule(ParseDate(from))
            \/ ~isWithinSalonHoursForSchedule(ParseDate(to))
    THEN "errorScheduleOutsideHours"
    ELSE IF shiftOverlap(scheds, employeeId, from, to, editId)
    THEN "errorScheduleOverlapEmployee"
    ELSE "Ok"

\* A variant of the checks that holds shifts to the hours of appointments.
validateShift_closeExcluded(employeeId, from, to, editId, scheds, nowD) ==
    IF employeeId = Null \/ from = EmptyString \/ to = EmptyString
    THEN "errorScheduleRequired"
    ELSE IF editId = Null /\ (ParseDate(from) < nowD \/ ParseDate(to) < nowD)
    THEN "errorSchedulePast"
    ELSE IF \/ ~isWithinSalonHoursForAppointment(ParseDate(from))
            \/ ~isWithinSalonHoursForAppointment(ParseDate(to))
    THEN "errorScheduleOutsideHours"
    ELSE IF ParseDate(from) >= ParseDate(to)
    THEN "errorScheduleEndBeforeStart"
    ELSE IF shiftOverlap(scheds, employeeId, from, to, editId)
    THEN "errorScheduleOverlapEmployee"
    ELSE "Ok"

\* A variant of the checks that holds edits to the past check too.
validateShift_pastOnEdit(employeeId, from, to, editId, scheds, nowD) ==
    IF employeeId = Null \/ from = EmptyString \/ to = EmptyString
    THEN "errorScheduleRequired"
    ELSE IF ParseDate(from) < nowD \/ ParseDate(to) < nowD
    THEN "errorSchedulePast"
    ELSE IF \/ ~isWithinSalonHoursForSchedule(ParseDate(from))
            \/ ~isWithinSalonHoursForSchedule(ParseDate(to))
    THEN "errorScheduleOutsideHours"
    ELSE IF ParseDate(from) >= ParseDate(to)
    THEN "errorScheduleEndBeforeStart"
    ELSE IF shiftOverlap(scheds, employeeId, from, to, editId)
    THEN "errorScheduleOverlapEmployee"
    ELSE "Ok"

\* A variant of the checks that lets a shift end at the instant it starts.
validateShift_equalAllowed(employeeId, from, to, editId, scheds, nowD) ==
    IF employeeId = Null \/ from = EmptyString \/ to = EmptyString
    THEN "errorScheduleRequired"
    ELSE IF editId = Null /\ (ParseDate(from) < nowD \/ ParseDate(to) < nowD)
    THEN "errorSchedulePast"
    ELSE IF \/ ~isWithinSalonHoursForSchedule(ParseDate(from))
            \/ ~isWithinSalonHoursForSchedule(ParseDate(to))
    THEN "errorScheduleOutsideHours"
    ELSE IF ParseDate(from) > ParseDate(to)
    THEN "errorScheduleEndBeforeStart"
    ELSE IF shiftOverlap(scheds, employeeId, from, to, editId)
    THEN "errorScheduleOverlapEmployee"
    ELSE "Ok"

\* A variant of the checks in the order interval, hours, past.
validateShift_intervalFirst(employeeId, from, to, editId, scheds, nowD) ==
    IF employeeId = Null \/ from = EmptyString \/ to = EmptyString
    THEN "errorScheduleRequired"
    ELSE IF ParseDate(from) >= ParseDate(to)
    THEN "errorScheduleEndBeforeStart"
    ELSE IF \/ ~isWithinSalonHoursForSchedule(ParseDate(from))
            \/ ~isWithinSalonHoursForSchedule(ParseDate(to))
    THEN "errorScheduleOutsideHours"
    ELSE IF editId = Null /\ (ParseDate(from) < nowD \/ ParseDate(to) < nowD)
    THEN "errorSchedulePast"
    ELSE IF shiftOverlap(scheds, employeeId, from, to, editId)
    THEN "errorScheduleOverlapEmployee"
    ELSE "Ok"

\* The checks of handleCreate, in the order of the code: the message key of the
\* first check that returns, or "Ok" when the handler goes on to the request.
validateShift(employeeId, from, to, editId, scheds, nowD) ==
    IF employeeId = Null \/ from = EmptyString \/ to = EmptyString
    THEN "errorScheduleRequired"
    ELSE IF editId = Null /\ (ParseDate(from) < nowD \/ ParseDate(to) < nowD)
    THEN "errorSchedulePast"
    ELSE IF \/ ~isWithinSalonHoursForSchedule(ParseDate(from))
            \/ ~isWithinSalonHoursForSchedule(ParseDate(to))
    THEN "errorScheduleOutsideHours"
    ELSE IF ParseDate(from) >= ParseDate(to)
    THEN "errorScheduleEndBeforeStart"
    ELSE IF shiftOverlap(scheds, employeeId, from, to, editId)
    THEN "errorScheduleOverlapEmployee"
    ELSE "Ok"

\* roundToNextHour of the DateTimeInput
roundToNextHour(d) ==
    IF d % (60 * 60 * 1000) # 0
    THEN (d \div (60 * 60 * 1000) + 1) * (60 * 60 * 1000)
    ELSE d

\* The value a roundToHour DateTimeInput leaves in the form field it shows: its
\* effect replaces a value off the hour by the next hour.
shownHour(shown, iso) ==
    IF shown THEN toISOString(roundToNextHour(ParseDate(iso))) ELSE iso

\* Times the date-time pickers of the schedule form can deliver.
ShiftPickerTimes ==
    { At(1, 10, 0), At(1, 11, 0), At(1, 12, 0), At(1, 21, 0), At(1, 22, 0) }

shiftFormReset(shown) ==
    /\ selectedEmployeeId' = Null
    /\ startAt' = shownHour(shown, toISOString(now))
    /\ endAt' = shownHour(shown, toISOString(now + 60 * 60 * 1000))
    /\ editingId' = Null

\* onPress of the button under the form
Shift_toggleCreate ==
    /\ screen = "schedules" /\ Quiet
    /\ showCreate' = ~showCreate
    /\ IF showCreate
       THEN shiftFormReset(FALSE)
       ELSE /\ startAt' = shownHour(TRUE, startAt)
            /\ endAt' = shownHour(TRUE, endAt)
            /\ UNCHANGED <<selectedEmployeeId, editingId>>
    /\ result' = "none"
    /\ UNCHANGED <<screen, pureVars, otherClient, asyncVars, apptVars, services, employees, shiftStore, schedules,
                   loading, now>>

Shift_setSelectedEmployeeId(e) ==
    /\ screen = "schedules" /\ Quiet /\ showCreate
    /\ selectedEmployeeId' = e
    /\ result' = "none"
    /\ UNCHANGED <<screen, pureVars, otherClient, asyncVars, apptVars, services, employees, shiftVars, editingId,
                   showCreate, loading, now>>

\* onChange of the two DateTimeInputs; minimumDate is new Date() unless editing
setStartAt(t) ==
    /\ screen = "schedules" /\ Quiet /\ showCreate
    /\ editingId = Null => ~(roundToNextHour(ParseDate(t)) < now)
    /\ startAt' = toISOString(roundToNextHour(ParseDate(t)))
    /\ result' = "none"
    /\ UNCHANGED <<screen, pureVars, otherClient, asyncVars, apptVars, services, employees, shiftStore, schedules,
                   endAt, selectedEmployeeId, editingId, showCreate, loading, now>>

setEndAt(t) ==
    /\ screen = "schedules" /\ Quiet /\ showCreate
    /\ editingId = Null => ~(roundToNextHour(ParseDate(t)) < now)
    /\ endAt' = toISOString(roundToNextHour(ParseDate(t)))
    /\ result' = "none"
    /\ UNCHANGED <<screen, pureVars, otherClient, asyncVars, apptVars, services, employees, shiftStore, schedules,
                   startAt, selectedEmployeeId, editingId, showCreate, loading, now>>

\* handleShiftAction: the dialog with the edit and delete buttons, built for
\* the shift as this render's snapshot has it
handleShiftAction(shiftId) ==
    /\ screen = "schedules" /\ actionDialog = {}
    /\ \E schedule \in schedules :
           schedule._id = shiftId /\ actionDialog' = {schedule}
    /\ result' = "none"
    /\ UNCHANGED <<screen, pureVars, otherClient, inflight, apptVars, services,
                   employees, shiftVars, selectedEmployeeId, editingId,
                   showCreate, loading, now>>

\* the close button of the dialog
Shift_dialogClose ==
    /\ screen = "schedules" /\ actionDialog # {}
    /\ actionDialog' = {}
    /\ result' = "none"
    /\ UNCHANGED <<screen, pureVars, otherClient, inflight, apptVars, services,
                   employees, shiftVars, selectedEmployeeId, editingId,
                   showCreate, loading, now>>

\* the edit button of the dialog: handleEdit(schedule)
Shift_handleEdit(item) ==
    /\ screen = "schedules" /\ item \in actionDialog
    /\ actionDialog' = {}
    /\ showCreate' = TRUE
    /\ editingId' = item._id
    /\ selectedEmployeeId' = item.employee
    /\ startAt' = shownHour(TRUE, item.startAt)
    /\ endAt' = shownHour(TRUE, item.endAt)
    /\ result' = "none"
    /\ UNCHANGED <<screen, pureVars, otherClient, inflight, apptVars, services,
                   employees, shiftStore, schedules, loading, now>>

\* the delete button of the dialog: handleDelete(schedule._id) up to its
\* await, the DELETE request
Shift_handleDelete(item) ==
    /\ screen = "schedules" /\ item \in actionDialog
    /\ Len(inflight) < MaxInFlight
    /\ actionDialog' = {}
    /\ inflight' = Append(inflight, [method |-> "DELETE", id |-> item._id])
    /\ result' = "none"
    /\ UNCHANGED <<screen, pureVars, otherClient, apptVars, services, employees,
                   shiftVars, selectedEmployeeId, editingId, showCreate, loading,
                   now>>

\* handleDelete after the DELETE resolved: load() replaces the snapshot
Shift_handleDeleteDone(k) ==
    /\ screen = "schedules"
    /\ k \in 1..Len(inflight) /\ inflight[k].method = "DELETE"
    /\ \E s \in shiftStore : s._id = inflight[k].id
    /\ shiftStore' = { s \in shiftStore : s._id # inflight[k].id }
    /\ schedules' = shiftStore'
    /\ inflight' = RemoveAt(inflight, k)
    /\ result' = "none"
    /\ UNCHANGED <<screen, pureVars, otherClient, actionDialog, apptVars,
                   services, employees, startAt, endAt, selectedEmployeeId,
                   editingId, showCreate, loading, now>>

\* handleDelete when the backend no longer has the shift: the catch
Shift_handleDeleteFailed(k) ==
    /\ screen = "schedules"
    /\ k \in 1..Len(inflight) /\ inflight[k].method = "DELETE"
    /\ ~\E s \in shiftStore : s._id = inflight[k].id
    /\ inflight' = RemoveAt(inflight, k)
    /\ result' = "none"
    /\ UNCHANGED <<screen, pureVars, otherClient, actionDialog, apptVars,
                   services, employees, shiftVars, selectedEmployeeId, editingId,
                   showCreate, loading, now>>

\* The request handleCreate sends for the form as it stands
shiftRequest ==
    [ method |-> IF editingId # Null THEN "PATCH" ELSE "POST",
      id |-> editingId,
      employeeId |-> selectedEmployeeId,
      startAt |-> startAt,
      endAt |-> endAt ]

\* handleCreate up to its first await; the button stays enabled while loading
\* is true
Shift_handleCreate ==
    /\ screen = "schedules" /\ actionDialog = {} /\ showCreate
    /\ Len(inflight) < MaxInFlight
    /\ result' = validateShift(selectedEmployeeId, startAt, endAt, editingId,
                               schedules, now)
    /\ loading' = (loading \/ result' = "Ok")
    /\ inflight' = IF result' = "Ok" THEN Append(inflight, shiftRequest)
                   ELSE inflight
    /\ UNCHANGED <<screen, pureVars, otherClient, actionDialog, apptVars,
                   services, employees, shiftVars, selectedEmployeeId, editingId,
                   showCreate, now>>

\* The record the backend keeps for the body of a POST or PATCH
shiftWrittenRecord(id, req) ==
    [ _id |-> id, employee |-> req.employeeId, startAt |-> req.startAt,
      endAt |-> req.endAt ]

shiftWriteTaken(req) ==
    IF req.method = "PATCH"
    THEN \E old \in shiftStore : old._id = req.id
    ELSE \E id \in ShiftIds : \A s \in shiftStore : s._id # id

shiftWritten(req) ==
    IF req.method = "PATCH"
    THEN { IF s._id = req.id THEN shiftWrittenRecord(req.id, req) ELSE s :
           s \in shiftStore }
    ELSE shiftStore \cup
         { shiftWrittenRecord(CHOOSE id \in ShiftIds :
                                  \A s \in shiftStore : s._id # id, req) }

\* handleCreate after its request resolved
Shift_handleCreateDone(k) ==
    /\ screen = "schedules"
    /\ k \in 1..Len(inflight) /\ inflight[k].method \in {"POST", "PATCH"}
    /\ shiftWriteTaken(inflight[k])
    /\ shiftStore' = shiftWritten(inflight[k])
    /\ schedules' = shiftStore'
    /\ shiftFormReset(inflight[k].method = "PATCH" /\ showCreate)
    /\ showCreate' = IF inflight[k].method = "POST" THEN FALSE ELSE showCreate
    /\ loading' = FALSE
    /\ inflight' = RemoveAt(inflight, k)
    /\ result' = "none"
    /\ UNCHANGED <<screen, pureVars, otherClient, actionDialog, apptVars,
                   services, employees, now>>

\* handleCreate when its request is rejected: the catch and finally branches
Shift_handleCreateFailed(k) ==
    /\ screen = "schedules"
    /\ k \in 1..Len(inflight) /\ inflight[k].method \in {"POST", "PATCH"}
    /\ ~shiftWriteTaken(inflight[k])
    /\ loading' = FALSE
    /\ inflight' = RemoveAt(inflight, k)
    /\ result' = "none"
    /\ UNCHANGED <<screen, pureVars, otherClient, actionDialog, apptVars,
                   services, employees, shiftVars, selectedEmployeeId, editingId,
                   showCreate, now>>

----------------------------------------------------------------------------
(* The clock *)

SessionStart == ParseDate(At(1, 10, 0))

TickLength == 30 * 60 * 1000

MaxTicks == 1

\* Time passes between two events of the session.
Tick ==
    /\ Quiet
    /\ now < SessionStart + MaxTicks * TickLength
    /\ now' = now + TickLength
    /\ result' = "none"
    /\ UNCHANGED <<screen, pureVars, otherClient, asyncVars, apptVars, services, employees, shiftVars,
                   selectedEmployeeId, editingId, showCreate, loading>>

----------------------------------------------------------------------------
(* The session *)

Init ==
    /\ \E b \in Backends :
           \/ screen = "appointments" /\ services = b.services
                                      /\ employees = b.employees
           \/ screen = "schedules" /\ services = {} /\ employees = b.employees
    /\ apptStore = {}
    /\ shiftStore = {}
    /\ appointments = {}
    /\ schedules = {}
    /\ now = SessionStart
    /\ selectedCustomerId = Null
    /\ selectedServiceId = Null
    /\ selectedEmployeeId = Null
    /\ scheduledAt = toISOString(SessionStart)
    /\ startAt = toISOString(SessionStart)
    /\ endAt = toISOString(SessionStart + 60 * 60 * 1000)
    /\ editingId = Null
    /\ showCreate = FALSE
    /\ loading = FALSE
    /\ result = "none"
    /\ inflight = <<>>
    /\ actionDialog = {}
    /\ otherClient = [phase |-> "absent"]
    /\ instant = EmptyString
    /\ withinForAppointment = <<>>
    /\ withinForSchedule = <<>>
    /\ intervals = <<>>
    /\ overlapAnswer = {}

ApptNext ==
    \/ Appt_toggleCreate
    \/ \E c \in Customers \cup {Null} : setSelectedCustomerId(c)
    \/ \E s \in { x._id : x \in services } \cup {Null} : setSelectedServiceId(s)
    \/ \E e \in employees \cup {Null} : Appt_setSelectedEmployeeId(e)
    \/ \E t \in ApptPickerTimes : setScheduledAt(t)
    \/ \E id \in ApptIds : ~showCreate /\ handleAppointmentAction(id)
    \/ Appt_dialogClose
    \/ \E item \in actionDialog : Appt_handleEdit(item)
    \/ \E item \in actionDialog : Appt_handleDelete(item)
    \/ \E k \in 1..MaxInFlight : Appt_handleDeleteDone(k)
    \/ \E k \in 1..MaxInFlight : Appt_handleDeleteFailed(k)
    \/ Appt_handleCreate
    \/ \E k \in 1..MaxInFlight : Appt_handleCreateDone(k)
    \/ \E k \in 1..MaxInFlight : Appt_handleCreateFailed(k)

ShiftNext ==
    \/ Shift_toggleCreate
    \/ \E e \in employees \cup {Null} : Shift_setSelectedEmployeeId(e)
    \/ \E t \in ShiftPickerTimes : setStartAt(t)
    \/ \E t \in ShiftPickerTimes : setEndAt(t)
    \/ \E id \in ShiftIds : ~showCreate /\ handleShiftAction(id)
    \/ Shift_dialogClose
    \/ \E item \in actionDialog : Shift_handleEdit(item)
    \/ \E item \in actionDialog : Shift_handleDelete(item)
    \/ \E k \in 1..MaxInFlight : Shift_handleDeleteDone(k)
    \/ \E k \in 1..MaxInFlight : Shift_handleDeleteFailed(k)
    \/ Shift_handleCreate
    \/ \E k \in 1..MaxInFlight : Shift_handleCreateDone(k)
    \/ \E k \in 1..MaxInFlight : Shift_handleCreateFailed(k)

Next ==
    \/ ApptNext
    \/ ShiftNext
    \/ Tick

Spec == Init /\ [][Next]_vars

----------------------------------------------------------------------------
(* The two hour checks of salon-hours.ts on their own: a Date is built and *)
(* handed to either function.  No screen is mounted.                       *)

MaxDay == 1

InstantHours == {0, 6, 7, 12, 20, 21, 22, 23}

InstantMinutes == {0, 1, 30, 59}

Instants ==
    { <<day, hour, minute, second, ms>> :
        day \in 0..MaxDay, hour \in InstantHours, minute \in InstantMinutes,
        second \in {0, 59}, ms \in {0, 999} }

\* a caller builds new Date(iso)
pickInstant(t) ==
    /\ instant' = t
    /\ withinForAppointment' = <<>>
    /\ withinForSchedule' = <<>>
    /\ UNCHANGED <<screenVars, asyncVars, otherClient, overlapVars>>

checkAppointmentHours ==
    /\ withinForAppointment' = <<isWithinSalonHoursForAppointment(ParseDate(instant))>>
    /\ UNCHANGED <<screenVars, asyncVars, otherClient, overlapVars, instant,
                   withinForSchedule>>

checkScheduleHours ==
    /\ withinForSchedule' = <<isWithinSalonHoursForSchedule(ParseDate(instant))>>
    /\ UNCHANGED <<screenVars, asyncVars, otherClient, overlapVars, instant,
                   withinForAppointment>>

HoursInit ==
    /\ screen = "none"
    /\ apptStore = {} /\ shiftStore = {}
    /\ appointments = {} /\ services = {} /\ employees = {} /\ schedules = {}
    /\ selectedCustomerId = Null /\ selectedServiceId = Null
    /\ selectedEmployeeId = Null
    /\ scheduledAt = toISOString(SessionStart)
    /\ startAt = toISOString(SessionStart)
    /\ endAt = toISOString(SessionStart + 60 * 60 * 1000)
    /\ editingId = Null /\ showCreate = FALSE /\ loading = FALSE
    /\ result = "none"
    /\ now = SessionStart
    /\ inflight = <<>>
    /\ actionDialog = {}
    /\ otherClient = [phase |-> "absent"]
    /\ instant \in Instants
    /\ withinForAppointment = <<>>
    /\ withinForSchedule = <<>>
    /\ intervals = <<>>
    /\ overlapAnswer = {}

HoursNext ==
    \/ \E t \in Instants : pickInstant(t)
    \/ checkAppointmentHours
    \/ checkScheduleHours

HoursSpec == HoursInit /\ [][HoursNext]_vars

----------------------------------------------------------------------------
(* The overlap tests of the two scans on their own: two intervals of       *)
(* instants are taken, and either scan's test is applied with either       *)
(* interval as the candidate and the other as the stored booking.          *)

MaxInstant == 3

\* <<start, end>> in milliseconds; an interval may be empty or reversed
Intervals == (0..MaxInstant) \X (0..MaxInstant)

\* the test of the appointment scan, intervals[c] being the candidate
scanAppointmentForm(c) ==
    /\ overlapAnswer' = overlapAnswer \cup
           { [ form |-> "appointment", candidate |-> c,
               answer |-> apptOverlapForm(intervals[3 - c][1], intervals[3 - c][2],
                                          intervals[c][1], intervals[c][2]) ] }
    /\ UNCHANGED <<screenVars, asyncVars, otherClient, hoursVars, intervals>>

\* the test of the shift scan, intervals[c] being the candidate
scanShiftForm(c) ==
    /\ overlapAnswer' = overlapAnswer \cup
           { [ form |-> "shift", candidate |-> c,
               answer |-> shiftOverlapForm(intervals[3 - c][1], intervals[3 - c][2],
                                           intervals[c][1], intervals[c][2]) ] }
    /\ UNCHANGED <<screenVars, asyncVars, otherClient, hoursVars, intervals>>

OverlapInit ==
    /\ screen = "none"
    /\ apptStore = {} /\ shiftStore = {}
    /\ appointments = {} /\ services = {} /\ employees = {} /\ schedules = {}
    /\ selectedCustomerId = Null /\ selectedServiceId = Null
    /\ selectedEmployeeId = Null
    /\ scheduledAt = toISOString(SessionStart)
    /\ startAt = toISOString(SessionStart)
    /\ endAt = toISOString(SessionStart + 60 * 60 * 1000)
    /\ editingId = Null /\ showCreate = FALSE /\ loading = FALSE
    /\ result = "none"
    /\ now = SessionStart
    /\ inflight = <<>>
    /\ actionDialog = {}
    /\ otherClient = [phase |-> "absent"]
    /\ instant = EmptyString
    /\ withinForAppointment = <<>>
    /\ withinForSchedule = <<>>
    /\ intervals \in Intervals \X Intervals
    /\ overlapAnswer = {}

OverlapNext ==
    \/ \E c \in {1, 2} : scanAppointmentForm(c)
    \/ \E c \in {1, 2} : scanShiftForm(c)

OverlapSpec == OverlapInit /\ [][OverlapNext]_vars

----------------------------------------------------------------------------
(* Two admin devices on one backend.  Each runs the same screen: load()    *)
(* fills its own snapshot, handleCreate checks its own form against its    *)
(* own snapshot and posts.  The backend takes every write.  Both forms are *)
(* open and filled in for a new booking.                                   *)

RaceTimes == { At(1, 10, 0), At(1, 10, 30), At(1, 11, 0) }

RaceShifts ==
    { <<At(1, 10, 0), At(1, 11, 0)>>, <<At(1, 11, 0), At(1, 12, 0)>>,
      <<At(1, 10, 0), At(1, 12, 0)>> }

RaceEmployees == {"e1", "e2"}

\* what the first device's handlers leave alone when the second one acts
firstDevice ==
    <<appointments, schedules, services, employees, selectedCustomerId,
      selectedServiceId, selectedEmployeeId, scheduledAt, startAt, endAt,
      editingId, showCreate, loading, result, now, asyncVars>>

\* load() of the second device: GET /appointments or GET /work-schedules
Other_load ==
    /\ otherClient' =
           [otherClient EXCEPT !.snapshot =
                IF screen = "appointments" THEN apptStore ELSE shiftStore]
    /\ otherClient'.snapshot # otherClient.snapshot
    /\ UNCHANGED <<screen, apptStore, shiftStore, firstDevice, pureVars>>

\* handleCreate of the appointments screen on the second device, up to its
\* request
Other_Appt_handleCreate ==
    /\ screen = "appointments" /\ otherClient.open
    /\ Len(otherClient.inflight) < MaxInFlight
    /\ LET f == otherClient.form
           answer == validateAppointment(f.customerId, f.serviceId,
                         f.assignedEmployeeId, f.scheduledAt, Null,
                         otherClient.snapshot, services, now)
       IN  otherClient' =
               [otherClient EXCEPT
                    !.result = answer,
                    !.inflight = IF answer = "Ok"
                                 THEN Append(@, [method |-> "POST", id |-> Null] @@ f)
                                 ELSE @]
    /\ UNCHANGED <<screen, apptStore, shiftStore, firstDevice, pureVars>>

\* handleCreate of the appointments screen on the second device after its
\* POST resolved: form reset, load(), form closed
Other_Appt_handleCreateDone ==
    /\ screen = "appointments"
    /\ otherClient.inflight # <<>>
    /\ apptWriteTaken(otherClient.inflight[1])
    /\ apptStore' \in apptStoreMoves(apptWritten(otherClient.inflight[1]))
    /\ otherClient' =
           [otherClient EXCEPT
                !.snapshot = apptStore',
                !.form = [customerId |-> Null, serviceId |-> Null,
                          assignedEmployeeId |-> Null,
                          scheduledAt |-> toISOString(now)],
                !.open = FALSE,
                !.result = "none",
                !.inflight = Tail(@)]
    /\ UNCHANGED <<screen, shiftStore, firstDevice, pureVars>>

\* handleCreate of the schedules screen on the second device, up to its request
Other_Shift_handleCreate ==
    /\ screen = "schedules" /\ otherClient.open
    /\ Len(otherClient.inflight) < MaxInFlight
    /\ LET f == otherClient.form
           answer == validateShift(f.employeeId, f.startAt, f.endAt, Null,
                                   otherClient.snapshot, now)
       IN  otherClient' =
               [otherClient EXCEPT
                    !.result = answer,
                    !.inflight = IF answer = "Ok"
                                 THEN Append(@, [method |-> "POST", id |-> Null] @@ f)
                                 ELSE @]
    /\ UNCHANGED <<screen, apptStore, shiftStore, firstDevice, pureVars>>

\* handleCreate of the schedules screen on the second device after its POST
\* resolved
Other_Shift_handleCreateDone ==
    /\ screen = "schedules"
    /\ otherClient.inflight # <<>>
    /\ shiftWriteTaken(otherClient.inflight[1])
    /\ shiftStore' = shiftWritten(otherClient.inflight[1])
    /\ otherClient' =
           [otherClient EXCEPT
                !.snapshot = shiftStore',
                !.form = [employeeId |-> Null,
                          startAt |-> toISOString(now),
                          endAt |-> toISOString(now + 60 * 60 * 1000)],
                !.open = FALSE,
                !.result = "none",
                !.inflight = Tail(@)]
    /\ UNCHANGED <<screen, apptStore, firstDevice, pureVars>>

RaceInit ==
    /\ services = {Service30} /\ employees = RaceEmployees
    /\ \/ /\ screen = "appointments"
          /\ selectedCustomerId = "c1" /\ selectedServiceId = "s30"
          /\ selectedEmployeeId \in RaceEmployees
          /\ scheduledAt \in RaceTimes
          /\ startAt = toISOString(SessionStart)
          /\ endAt = toISOString(SessionStart + 60 * 60 * 1000)
          /\ \E e \in RaceEmployees, at \in RaceTimes :
                 otherClient =
                     [ snapshot |-> {}, open |-> TRUE, result |-> "none",
                       inflight |-> <<>>,
                       form |-> [customerId |-> "c2", serviceId |-> "s30",
                                 assignedEmployeeId |-> e, scheduledAt |-> at] ]
       \/ /\ screen = "schedules"
          /\ selectedCustomerId = Null /\ selectedServiceId = Null
          /\ selectedEmployeeId \in RaceEmployees
          /\ scheduledAt = toISOString(SessionStart)
          /\ \E iv \in RaceShifts : startAt = iv[1] /\ endAt = iv[2]
          /\ \E e \in RaceEmployees, iv \in RaceShifts :
                 otherClient =
                     [ snapshot |-> {}, open |-> TRUE, result |-> "none",
                       inflight |-> <<>>,
                       form |-> [employeeId |-> e, startAt |-> iv[1],
                                 endAt |-> iv[2]] ]
    /\ apptStore = {} /\ shiftStore = {}
    /\ appointments = {} /\ schedules = {}
    /\ editingId = Null /\ showCreate = TRUE /\ loading = FALSE
    /\ result = "none"
    /\ now = SessionStart
    /\ inflight = <<>>
    /\ actionDialog = {}
    /\ instant = EmptyString
    /\ withinForAppointment = <<>>
    /\ withinForSchedule = <<>>
    /\ intervals = <<>>
    /\ overlapAnswer = {}

RaceNext ==
    \/ Appt_handleCreate
    \/ \E k \in 1..MaxInFlight : Appt_handleCreateDone(k)
    \/ Shift_handleCreate
    \/ \E k \in 1..MaxInFlight : Shift_handleCreateDone(k)
    \/ Other_load
    \/ Other_Appt_handleCreate
    \/ Other_Appt_handleCreateDone
    \/ Other_Shift_handleCreate
    \/ Other_Shift_handleCreateDone

RaceSpec == RaceInit /\ [][RaceNext]_vars

----------------------------------------------------------------------------
(* handleCreate on any form and snapshot.  The checks of handleCreate read *)
(* the form, the loaded snapshot and the clock and nothing else; here a    *)
(* screen is taken with its form open on any values of a bounded set, as   *)
(* a long session and other clients of the backend can leave them, and the *)
(* submit button is pressed.                                               *)

\* Day 0 is the day before the session, day 1 the day of the session.
\* scheduledAt of the appointment form
FormTimes ==
    { At(0, 9, 0), At(1, 6, 0), At(1, 10, 0), At(1, 10, 30),
      At(1, 20, 45), At(1, 21, 0), At(1, 21, 30) }

\* startAt and endAt of the schedule form, which shows whole hours
ShiftFormTimes ==
    { At(0, 9, 0), At(0, 17, 0), At(1, 6, 0),
      At(1, 10, 0), At(1, 11, 0), At(1, 12, 0), At(1, 20, 0),
      At(1, 21, 0), At(1, 22, 0) }

\* what GET /appointments may have returned: nothing, or one appointment
LoadedAppointments(b) ==
    {{}} \cup
    { { [ _id |-> "a1", customer |-> "c1", service |-> sv,
          assignedEmployee |-> e, scheduledAt |-> at, status |-> st ] } :
        sv \in b.services, e \in b.employees \cup {Null},
        at \in {At(1, 10, 30), At(1, 21, 0)},
        st \in {"scheduled"} \cup TerminalStatuses }

\* what GET /work-schedules may have returned: nothing, or one shift
LoadedSchedules(b) ==
    {{}} \cup
    { { [ _id |-> "w1", employee |-> e, startAt |-> iv[1], endAt |-> iv[2] ] } :
        e \in b.employees,
        iv \in { <<At(1, 10, 0), At(1, 11, 0)>>,
                 <<At(1, 11, 0), At(1, 12, 0)>>,
                 <<At(0, 9, 0), At(0, 17, 0)>> } }

SubmitInit ==
    /\ \E b \in Backends :
           \/ /\ screen = "appointments"
              /\ services = b.services /\ employees = b.employees
              /\ appointments \in LoadedAppointments(b)
              /\ schedules = {}
              /\ selectedCustomerId \in Customers \cup {Null}
              /\ selectedServiceId \in { x._id : x \in b.services } \cup {Null}
              /\ selectedEmployeeId \in b.employees \cup {Null}
              /\ scheduledAt \in FormTimes
              /\ startAt = toISOString(SessionStart)
              /\ endAt = toISOString(SessionStart + 60 * 60 * 1000)
              /\ editingId \in ApptIds \cup {Null}
           \/ /\ screen = "schedules"
              /\ services = {} /\ employees = b.employees
              /\ appointments = {}
              /\ schedules \in LoadedSchedules(b)
              /\ selectedCustomerId = Null /\ selectedServiceId = Null
              /\ selectedEmployeeId \in b.employees \cup {Null}
              /\ scheduledAt = toISOString(SessionStart)
              /\ startAt \in ShiftFormTimes
              /\ endAt \in ShiftFormTimes
              /\ editingId \in ShiftIds \cup {Null}
    /\ apptStore = appointments
    /\ shiftStore = schedules
    /\ now \in {SessionStart, SessionStart + TickLength}
    /\ showCreate = TRUE
    /\ loading = FALSE
    /\ result = "none"
    /\ inflight = <<>>
    /\ actionDialog = {}
    /\ otherClient = [phase |-> "absent"]
    /\ instant = EmptyString
    /\ withinForAppointment = <<>>
    /\ withinForSchedule = <<>>
    /\ intervals = <<>>
    /\ overlapAnswer = {}

SubmitNext ==
    \/ Appt_handleCreate
    \/ Shift_handleCreate

SubmitSpec == SubmitInit /\ [][SubmitNext]_vars

----------------------------------------------------------------------------
(* Properties of the booking rules.                                        *)
(* A state with result # "none" is the state a handleCreate run leaves: the *)
(* form, the snapshot and the clock are the ones the run read, and result  *)
(* is the message key it passed to setError, or "Ok" when it went on to    *)
(* the request.                                                            *)

ApptRan == screen = "appointments" /\ result # "none"

ShiftRan == screen = "schedules" /\ result # "none"

\* Local minutes since midnight, read off the fields of an ISO string
isoMinutes(iso) == iso[2] * 60 + iso[3]

\* The candidate of the appointment form gets past the checks that precede the
\* overlap scan.
apptReachesScan ==
    /\ selectedCustomerId # Null /\ selectedServiceId # Null
    /\ scheduledAt # EmptyString
    /\ ~(editingId # Null
         /\ \E a \in appointments : a._id = editingId /\ a.status = "completed")
    /\ ~(editingId = Null /\ ParseDate(scheduledAt) < now)
    /\ isoMinutes(scheduledAt) >= 7 * 60 /\ isoMinutes(scheduledAt) < 21 * 60

\* Effective interval of a stored appointment: the service's configured
\* duration when positive, 60 minutes otherwise
storedFrom(a) == ParseDate(a.scheduledAt)

storedTo(a) ==
    ParseDate(a.scheduledAt)
    + (IF "durationMinutes" \in DOMAIN a.service /\ a.service.durationMinutes > 0
       THEN a.service.durationMinutes ELSE 60) * 60 * 1000

\* Interval of the candidate as the handler derives it
candFrom == ParseDate(scheduledAt)

candTo == apptTargetEnd(services, selectedServiceId, scheduledAt)

apptBlocks(a) ==
    /\ a._id # editingId
    /\ a.assignedEmployee = selectedEmployeeId
    /\ a.status \notin {"completed", "cancelled"}
    /\ storedFrom(a) < candTo /\ candFrom < storedTo(a)

\* The verdict of the appointment checks on the current form against another
\* snapshot
apptVerdictOn(appts) ==
    validateAppointment(selectedCustomerId, selectedServiceId, selectedEmployeeId,
                        scheduledAt, editingId, appts, services, now)

\* C1: an employee-assigned appointment candidate that passes the earlier checks
\* is rejected with EmployeeConflict (errorScheduleConflict) if and only if the
\* snapshot holds an appointment with another id, the same employee and a status
\* other than completed/cancelled whose effective interval overlaps the
\* candidate's under stored.start < cand.end and cand.start < stored.end.
C1_ConflictIffLiveOverlap ==
    (ApptRan /\ apptReachesScan /\ selectedEmployeeId # Null)
    => (result = "errorScheduleConflict" <=> \E a \in appointments : apptBlocks(a))

\* Scenario 1: a stored 10:00-11:00 booking and a 30-minute request at 10:30
C1_Witness ==
    /\ ApptRan /\ result = "errorScheduleConflict"
    /\ scheduledAt = At(1, 10, 30) /\ selectedServiceId = "s30"
    /\ \E a \in appointments :
           /\ a.assignedEmployee = selectedEmployeeId
           /\ a.scheduledAt = At(1, 10, 0)
           /\ storedTo(a) = ParseDate(At(1, 11, 0))

\* The candidate of the schedule form gets past the checks that precede the
\* overlap scan.
shiftReachesScan ==
    /\ selectedEmployeeId # Null
    /\ startAt # EmptyString /\ endAt # EmptyString
    /\ ~(editingId = Null /\ (ParseDate(startAt) < now \/ ParseDate(endAt) < now))
    /\ isoMinutes(startAt) >= 7 * 60 /\ isoMinutes(startAt) <= 21 * 60
    /\ isoMinutes(endAt) >= 7 * 60 /\ isoMinutes(endAt) <= 21 * 60
    /\ ParseDate(startAt) < ParseDate(endAt)

shiftBlocks(s) ==
    /\ s._id # editingId
    /\ s.employee = selectedEmployeeId
    /\ ParseDate(s.startAt) < ParseDate(endAt)
    /\ ParseDate(startAt) < ParseDate(s.endAt)

\* C2: a shift candidate that passes the earlier checks is rejected with
\* EmployeeConflict (errorScheduleOverlapEmployee) if and only if the snapshot
\* holds a shift with another id and the same employee whose [startAt, endAt)
\* overlaps the candidate's under the strict predicate; every stored shift of
\* the employee takes part.
C2_ShiftConflictIffOverlap ==
    (ShiftRan /\ shiftReachesScan)
    => (result = "errorScheduleOverlapEmployee"
        <=> \E s \in schedules : shiftBlocks(s))

\* A candidate that starts before a stored shift of the employee and ends in it
C2_Witness ==
    /\ ShiftRan /\ result = "errorScheduleOverlapEmployee"
    /\ \E s \in schedules :
           /\ shiftBlocks(s)
           /\ ParseDate(startAt) < ParseDate(s.startAt)
           /\ ParseDate(endAt) <= ParseDate(s.endAt)

apptTouches(a) ==
    /\ a._id # editingId
    /\ a.assignedEmployee = selectedEmployeeId
    /\ a.status \notin {"completed", "cancelled"}
    /\ candFrom = storedTo(a) \/ candTo = storedFrom(a)

shiftTouches(s) ==
    /\ s._id # editingId
    /\ s.employee = selectedEmployeeId
    /\ ParseDate(startAt) = ParseDate(s.endAt) \/ ParseDate(endAt) = ParseDate(s.startAt)

\* C3: back-to-back bookings never conflict.  A candidate that starts where a
\* stored booking of the employee ends, or ends where it starts, is rejected
\* with EmployeeConflict only when some other stored booking overlaps it, and
\* the verdict is the one the snapshot without that booking gets.
C3_BackToBackNoConflict ==
    /\ (ApptRan /\ apptReachesScan /\ selectedEmployeeId # Null)
       => \A a \in appointments :
              apptTouches(a)
              => /\ result = "errorScheduleConflict"
                    => \E b \in appointments \ {a} : apptBlocks(b)
                 /\ apptVerdictOn(appointments \ {a}) = result
    /\ (ShiftRan /\ shiftReachesScan)
       => \A s \in schedules :
              shiftTouches(s)
              => /\ result = "errorScheduleOverlapEmployee"
                    => \E b \in schedules \ {s} : shiftBlocks(b)
                 /\ validateShift(selectedEmployeeId, startAt, endAt, editingId,
                                  schedules \ {s}, now) = result

\* Scenario 2: a request that starts where the employee's live booking ends is Ok
C3_Witness ==
    /\ ApptRan /\ result = "Ok" /\ selectedEmployeeId # Null
    /\ \E a \in appointments : apptTouches(a) /\ candFrom = storedTo(a)

apptUnchanged(a) ==
    /\ editingId = a._id
    /\ scheduledAt = a.scheduledAt
    /\ selectedEmployeeId = a.assignedEmployee
    /\ selectedServiceId = a.service._id

shiftUnchanged(s) ==
    /\ editingId = s._id
    /\ startAt = s.startAt /\ endAt = s.endAt
    /\ selectedEmployeeId = s.employee

\* C4: self-exclusion.  Submitting an edit with the stored interval and employee
\* unchanged is rejected with EmployeeConflict only when a record with another
\* id overlaps, and the verdict is the one the snapshot without the edited
\* record gets, whatever else the snapshot holds.
C4_SelfExclusion ==
    /\ (ApptRan /\ apptReachesScan)
       => \A a \in appointments :
              apptUnchanged(a)
              => /\ result = "errorScheduleConflict"
                    => \E b \in appointments \ {a} : apptBlocks(b)
                 /\ apptVerdictOn(appointments \ {a}) = result
    /\ (ShiftRan /\ shiftReachesScan)
       => \A s \in schedules :
              shiftUnchanged(s)
              => /\ result = "errorScheduleOverlapEmployee"
                    => \E b \in schedules \ {s} : shiftBlocks(b)
                 /\ validateShift(selectedEmployeeId, startAt, endAt, editingId,
                                  schedules \ {s}, now) = result

\* An unchanged live appointment of an employee is re-submitted next to another
\* stored appointment and accepted
C4_Witness ==
    /\ ApptRan /\ result = "Ok" /\ selectedEmployeeId # Null
    /\ \E a \in appointments :
           /\ apptUnchanged(a) /\ a.status = "scheduled"
           /\ appointments \ {a} # {}

isTerminal(a) == a.status \in {"completed", "cancelled"}

\* C5 as stated: adding or removing any stored completed or cancelled
\* appointment never changes the verdict.
C5_AnyTerminalRemovable ==
    ApptRan
    => \A a \in appointments :
           isTerminal(a) => apptVerdictOn(appointments \ {a}) = result

\* C5, amended: a stored completed or cancelled appointment never causes
\* EmployeeConflict, and adding or removing one never changes the verdict,
\* unless it is the completed record that is being edited.
C5_TerminalExclusion ==
    ApptRan
    => \A a \in appointments :
           isTerminal(a)
           => /\ result = "errorScheduleConflict"
                 => \E b \in appointments \ {a} : apptBlocks(b)
              /\ ~(a._id = editingId /\ a.status = "completed")
                 => apptVerdictOn(appointments \ {a}) = result

\* A cancelled booking of the employee lies across the accepted candidate
C5_Witness ==
    /\ ApptRan /\ result = "Ok" /\ selectedEmployeeId # Null
    /\ \E a \in appointments :
           /\ a.status = "cancelled" /\ a._id # editingId
           /\ a.assignedEmployee = selectedEmployeeId
           /\ storedFrom(a) < candTo /\ candFrom < storedTo(a)

\* C6: conflict detection is scoped per employee.  A stored booking of another
\* employee, or of none, never causes EmployeeConflict: a rejection needs an
\* overlapping booking among the others, and the verdict is the one the
\* snapshot without that booking gets.
C6_ScopedPerEmployee ==
    /\ (ApptRan /\ apptReachesScan /\ selectedEmployeeId # Null)
       => \A a \in appointments :
              a.assignedEmployee # selectedEmployeeId
              => /\ result = "errorScheduleConflict"
                    => \E b \in appointments \ {a} : apptBlocks(b)
                 /\ apptVerdictOn(appointments \ {a}) = result
    /\ (ShiftRan /\ shiftReachesScan)
       => \A s \in schedules :
              s.employee # selectedEmployeeId
              => /\ result = "errorScheduleOverlapEmployee"
                    => \E b \in schedules \ {s} : shiftBlocks(b)
                 /\ validateShift(selectedEmployeeId, startAt, endAt, editingId,
                                  schedules \ {s}, now) = result

\* A live booking of another employee lies across the accepted candidate
C6_Witness ==
    /\ ApptRan /\ result = "Ok" /\ selectedEmployeeId # Null
    /\ \E a \in appointments :
           /\ a.assignedEmployee \notin {selectedEmployeeId, Null}
           /\ a.status = "scheduled" /\ a._id # editingId
           /\ storedFrom(a) < candTo /\ candFrom < storedTo(a)

apptFieldsPresent ==
    selectedCustomerId # Null /\ selectedServiceId # Null /\ scheduledAt # EmptyString

apptEditsCompleted ==
    /\ editingId # Null
    /\ \E a \in appointments : a._id = editingId /\ a.status = "completed"

\* C7: a candidate with no assigned employee is never rejected with
\* EmployeeConflict, whatever the snapshot holds, and is rejected with InPast
\* and with OutsideHours exactly as the same candidate with an employee is.
C7_UnassignedExempt ==
    (ApptRan /\ selectedEmployeeId = Null)
    => /\ result # "errorScheduleConflict"
       /\ (apptFieldsPresent /\ editingId = Null /\ ParseDate(scheduledAt) < now)
          => result = "errorAppointmentPast"
       /\ (apptFieldsPresent /\ ~apptEditsCompleted
           /\ ~(editingId = Null /\ ParseDate(scheduledAt) < now)
           /\ ~(isoMinutes(scheduledAt) >= 7 * 60 /\ isoMinutes(scheduledAt) < 21 * 60))
          => result = "errorAppointmentOutsideHours"
       /\ \A e \in employees :
              LET assigned == validateAppointment(selectedCustomerId,
                                  selectedServiceId, e, scheduledAt, editingId,
                                  appointments, services, now)
              IN  /\ assigned = "errorAppointmentPast" <=> result = "errorAppointmentPast"
                  /\ assigned = "errorAppointmentOutsideHours"
                     <=> result = "errorAppointmentOutsideHours"

\* An unassigned candidate is accepted across a live unassigned booking
C7_Witness ==
    /\ ApptRan /\ result = "Ok" /\ selectedEmployeeId = Null
    /\ \E a \in appointments :
           /\ a.assignedEmployee = Null /\ a.status = "scheduled"
           /\ a._id # editingId
           /\ storedFrom(a) < candTo /\ candFrom < storedTo(a)

\* Duration of the selected service as the data model states it: the configured
\* durationMinutes when positive, 60 when there is none or it is <= 0
statedDuration ==
    LET found == { x \in services : x._id = selectedServiceId }
    IN  IF \E x \in found : "durationMinutes" \in DOMAIN x /\ x.durationMinutes > 0
        THEN (CHOOSE x \in found : TRUE).durationMinutes
        ELSE 60

statedCandTo == candFrom + statedDuration * 60 * 1000

\* C8: the candidate's effective interval is [scheduledAt, scheduledAt + d) with
\* d the service's configured durationMinutes when positive and 60 minutes when
\* the service declares none or a value <= 0, so the overlap scan rejects
\* exactly the candidates whose interval of that length overlaps a live booking
\* of the employee.
C8_CandidateInterval ==
    (ApptRan /\ apptReachesScan)
    => /\ candTo = statedCandTo
       /\ selectedEmployeeId # Null
          => (result = "errorScheduleConflict"
              <=> \E a \in appointments :
                      /\ a._id # editingId
                      /\ a.assignedEmployee = selectedEmployeeId
                      /\ ~isTerminal(a)
                      /\ storedFrom(a) < statedCandTo /\ candFrom < storedTo(a))

\* C9 as stated: MissingFields exactly when serviceId or scheduledAt is absent.
C9_ServiceAndTimeOnly ==
    ApptRan
    => (result = "errorAppointmentRequired"
        <=> (selectedServiceId = Null \/ scheduledAt = EmptyString))

\* C9, amended: MissingFields (errorAppointmentRequired) exactly when the
\* customer, the service or scheduledAt is absent; a candidate that has the
\* three is never rejected with it, and an absent employee never causes it.
C9_MissingFields ==
    ApptRan
    => (result = "errorAppointmentRequired"
        <=> (selectedCustomerId = Null \/ selectedServiceId = Null
             \/ scheduledAt = EmptyString))

\* A form with a customer and no service is rejected; the employee is absent
C9_Witness ==
    /\ ApptRan /\ result = "errorAppointmentRequired"
    /\ selectedCustomerId # Null /\ selectedServiceId = Null
    /\ selectedEmployeeId = Null

\* C10 as stated: an edit of a record the snapshot shows completed is rejected
\* with AlreadyCompleted whatever the candidate is.
C10_AlwaysAlreadyCompleted ==
    (ApptRan /\ apptEditsCompleted) => result = "errorAppointmentCompleted"

\* C10, amended: an edit of a record the snapshot shows completed is rejected
\* with AlreadyCompleted (errorAppointmentCompleted) whenever the form holds a
\* customer, a service and a time, regardless of the time, the hours and the
\* conflicts, and with MissingFields otherwise; it is never accepted.
C10_CompletedIsImmutable ==
    (ApptRan /\ apptEditsCompleted)
    => /\ apptFieldsPresent => result = "errorAppointmentCompleted"
       /\ ~apptFieldsPresent => result = "errorAppointmentRequired"
       /\ result # "Ok"

\* The rejected edit of a completed record asks for a time outside the hours
C10_Witness ==
    /\ ApptRan /\ apptEditsCompleted
    /\ result = "errorAppointmentCompleted"
    /\ isoMinutes(scheduledAt) >= 21 * 60

apptEditsCancelled ==
    /\ editingId # Null
    /\ \E a \in appointments : a._id = editingId /\ a.status = "cancelled"

\* C11 as stated: an edit of an appointment whose stored status is completed
\* or cancelled is rejected with AlreadyCompleted (the form holding customer,
\* service and time).
C11_TerminalEditRejected ==
    (ApptRan /\ apptFieldsPresent /\ (apptEditsCompleted \/ apptEditsCancelled))
    => result = "errorAppointmentCompleted"

\* C11, amended: AlreadyCompleted (errorAppointmentCompleted) is the answer
\* exactly to an edit, with customer, service and time present, of an
\* appointment whose stored status is completed; an edit of a cancelled
\* appointment is never rejected with it.
C11_OnlyCompletedRejected ==
    ApptRan
    => /\ result = "errorAppointmentCompleted"
          <=> (apptFieldsPresent /\ apptEditsCompleted)
       /\ apptEditsCancelled => result # "errorAppointmentCompleted"

\* The edit of a cancelled appointment is accepted
C11_Witness ==
    ApptRan /\ apptEditsCancelled /\ result = "Ok"

\* C12: a create (not editing) whose scheduledAt is before now is rejected
\* with InPast (errorAppointmentPast), its required fields being present; an
\* edit is never rejected with InPast, however far back scheduledAt lies.
C12_PastOnlyOnCreate ==
    ApptRan
    => /\ (editingId = Null /\ apptFieldsPresent /\ ParseDate(scheduledAt) < now)
          => result = "errorAppointmentPast"
       /\ editingId # Null => result # "errorAppointmentPast"
       /\ result = "errorAppointmentPast" => ParseDate(scheduledAt) < now

\* An edit that leaves the appointment at a time already past is accepted
C12_Witness ==
    /\ ApptRan /\ editingId # Null /\ result = "Ok"
    /\ ParseDate(scheduledAt) < now

apptStartOutsideHours ==
    ~(isoMinutes(scheduledAt) >= 7 * 60 /\ isoMinutes(scheduledAt) < 21 * 60)

apptCreateInPast == editingId = Null /\ ParseDate(scheduledAt) < now

\* C13: a candidate that gets past the field, completed and past checks is
\* rejected with OutsideHours (errorAppointmentOutsideHours), in create and in
\* edit mode alike, exactly when the local minutes since midnight of
\* scheduledAt lie outside [7*60, 21*60), 21:30 included; a start outside the
\* hours is never accepted; the end of the service has no part in it.
C13_OutsideHoursOnStart ==
    ApptRan
    => /\ result = "errorAppointmentOutsideHours"
          <=> /\ apptFieldsPresent /\ ~apptEditsCompleted /\ ~apptCreateInPast
              /\ apptStartOutsideHours
       /\ apptStartOutsideHours => result # "Ok"
       /\ (result = "errorAppointmentOutsideHours" /\ editingId = Null)
          => validateAppointment(selectedCustomerId, selectedServiceId,
                 selectedEmployeeId, scheduledAt, "a2", appointments, services,
                 now) = "errorAppointmentOutsideHours"

\* A create request at 21:30 is rejected with OutsideHours
C13_Witness ==
    /\ ApptRan /\ editingId = Null
    /\ scheduledAt = At(1, 21, 30)
    /\ result = "errorAppointmentOutsideHours"

\* The rules of the appointment form, each on its own
apptRuleFails(rule) ==
    CASE rule = 1 -> ~apptFieldsPresent
      [] rule = 2 -> apptEditsCompleted
      [] rule = 3 -> apptCreateInPast
      [] rule = 4 -> apptStartOutsideHours
      [] rule = 5 -> selectedEmployeeId # Null
                     /\ \E a \in appointments : apptBlocks(a)

apptRuleReason(rule) ==
    CASE rule = 1 -> "errorAppointmentRequired"
      [] rule = 2 -> "errorAppointmentCompleted"
      [] rule = 3 -> "errorAppointmentPast"
      [] rule = 4 -> "errorAppointmentOutsideHours"
      [] rule = 5 -> "errorScheduleConflict"

\* C14: the answer is the reason of the first failing rule in the order
\* MissingFields, AlreadyCompleted, InPast, OutsideHours, EmployeeConflict (a
\* candidate failing several rules gets the earliest), and Ok exactly when no
\* rule fails.
C14_FirstFailingRule ==
    ApptRan
    => /\ \A r \in 1..5 :
              (apptRuleFails(r) /\ \A q \in 1..(r - 1) : ~apptRuleFails(q))
              => result = apptRuleReason(r)
       /\ result = "Ok" <=> \A r \in 1..5 : ~apptRuleFails(r)

\* A create in the past, outside the hours, is answered InPast
C14_Witness ==
    /\ ApptRan /\ result = "errorAppointmentPast"
    /\ apptStartOutsideHours

shiftFieldsPresent ==
    selectedEmployeeId # Null /\ startAt # EmptyString /\ endAt # EmptyString

shiftCreateInPast ==
    editingId = Null /\ (ParseDate(startAt) < now \/ ParseDate(endAt) < now)

shiftInsideHours(iso) == isoMinutes(iso) >= 7 * 60 /\ isoMinutes(iso) <= 21 * 60

shiftOutsideHours == ~shiftInsideHours(startAt) \/ ~shiftInsideHours(endAt)

shiftEndNotAfterStart == ParseDate(endAt) <= ParseDate(startAt)

\* C15 as stated: with employee, startAt and endAt present, endAt <= startAt
\* is answered EndBeforeStart, in create and in edit mode.
C15_AlwaysEndBeforeStart ==
    (ShiftRan /\ shiftFieldsPresent /\ shiftEndNotAfterStart)
    => result = "errorScheduleEndBeforeStart"

\* C15, amended: with employee, startAt and endAt present, a shift with
\* endAt <= startAt (endAt = startAt included) is never accepted, in create
\* and in edit mode; the answer is EndBeforeStart
\* (errorScheduleEndBeforeStart) unless the past check (create only) or the
\* hours check, which both come first, rejects it.
C15_EndBeforeStart ==
    (ShiftRan /\ shiftFieldsPresent /\ shiftEndNotAfterStart)
    => /\ result = IF shiftCreateInPast THEN "errorSchedulePast"
                   ELSE IF shiftOutsideHours THEN "errorScheduleOutsideHours"
                   ELSE "errorScheduleEndBeforeStart"
       /\ ~loading

\* A shift that ends at the instant it starts is answered EndBeforeStart
C15_Witness ==
    /\ ShiftRan /\ startAt = endAt
    /\ result = "errorScheduleEndBeforeStart"

\* The rules of the schedule form, each on its own
shiftRuleFails(reason) ==
    CASE reason = "errorScheduleRequired" -> ~shiftFieldsPresent
      [] reason = "errorScheduleEndBeforeStart" -> shiftEndNotAfterStart
      [] reason = "errorScheduleOutsideHours" -> shiftOutsideHours
      [] reason = "errorSchedulePast" -> shiftCreateInPast
      [] reason = "errorScheduleOverlapEmployee" ->
             \E s \in schedules : shiftBlocks(s)

\* The answer is the reason of the first rule of `order` that fails
shiftFirstFailing(order) ==
    /\ \A i \in 1..Len(order) :
           (shiftRuleFails(order[i]) /\ \A j \in 1..(i - 1) : ~shiftRuleFails(order[j]))
           => result = order[i]
    /\ result = "Ok" <=> \A i \in 1..Len(order) : ~shiftRuleFails(order[i])

\* C16 as stated: the first failing rule in the order MissingFields,
\* EndBeforeStart, OutsideHours, InPast, EmployeeConflict; a create with
\* startAt < endAt, outside the hours and in the past, gets OutsideHours.
C16_IntervalHoursPast ==
    ShiftRan
    => shiftFirstFailing(<<"errorScheduleRequired", "errorScheduleEndBeforeStart",
                           "errorScheduleOutsideHours", "errorSchedulePast",
                           "errorScheduleOverlapEmployee">>)

\* C16, amended: the answer is the reason of the first failing rule in the
\* order MissingFields (employee, startAt or endAt absent), InPast,
\* OutsideHours, EndBeforeStart, EmployeeConflict; a create with
\* startAt < endAt that is outside the hours and in the past gets InPast; Ok
\* exactly when no rule fails.
C16_PastHoursInterval ==
    ShiftRan
    => shiftFirstFailing(<<"errorScheduleRequired", "errorSchedulePast",
                           "errorScheduleOutsideHours",
                           "errorScheduleEndBeforeStart",
                           "errorScheduleOverlapEmployee">>)

\* A create with startAt < endAt, outside the hours and in the past
C16_Witness ==
    /\ ShiftRan /\ shiftFieldsPresent /\ editingId = Null
    /\ ParseDate(startAt) < ParseDate(endAt)
    /\ shiftOutsideHours /\ shiftCreateInPast
    /\ result = "errorSchedulePast"

C18_ShiftPastOnlyOnCreate ==
    ShiftRan
    => /\ (shiftFieldsPresent /\ shiftCreateInPast) => result = "errorSchedulePast"
       /\ editingId # Null => result # "errorSchedulePast"
       /\ result = "errorSchedulePast"
          => (ParseDate(startAt) < now \/ ParseDate(endAt) < now)
       /\ (/\ editingId # Null /\ shiftFieldsPresent
           /\ startAt = At(0, 9, 0) /\ endAt = At(0, 17, 0)
           /\ ~\E s \in schedules : shiftBlocks(s))
          => result = "Ok"

\* An edit to 09:00-17:00 of the day before is accepted
C18_Witness ==
    /\ ShiftRan /\ editingId # Null /\ result = "Ok"
    /\ startAt = At(0, 9, 0) /\ endAt = At(0, 17, 0)

\* hour and minute of the Date under test, read off its ISO string
instantHour == instant[2]

instantMinute == instant[3]

\* C19: isWithinSalonHoursForAppointment(t) is true if and only if
\* 7*60 <= m < 21*60 with m = hour*60 + minute of t in local time: false for
\* every t at or after 21:00 and before 07:00, true for every t with
\* 7 <= hour < 21; the date, the seconds and the milliseconds of t have no
\* effect.
C19_AppointmentHours ==
    withinForAppointment # <<>>
    => /\ withinForAppointment[1]
          = (7 * 60 <= instantHour * 60 + instantMinute
             /\ instantHour * 60 + instantMinute < 21 * 60)
       /\ (instantHour >= 21 \/ instantHour < 7) => withinForAppointment = <<FALSE>>
       /\ (7 <= instantHour /\ instantHour < 21) => withinForAppointment = <<TRUE>>
       /\ \A t \in Instants :
              (t[2] = instantHour /\ t[3] = instantMinute)
              => isWithinSalonHoursForAppointment(ParseDate(t)) = withinForAppointment[1]

\* The check has answered false at 21:00:00.000
C19_Witness ==
    /\ withinForAppointment = <<FALSE>>
    /\ instantHour = 21 /\ instantMinute = 0
    /\ instant[4] = 0 /\ instant[5] = 0

\* C20: isWithinSalonHoursForSchedule(t) is true if and only if
\* 7*60 <= m <= 21*60; at 21:00 it is true while the appointment check is
\* false, and the two checks agree on every other minute of the day.
C20_ScheduleHours ==
    /\ withinForSchedule # <<>>
       => withinForSchedule[1]
          = (7 * 60 <= instantHour * 60 + instantMinute
             /\ instantHour * 60 + instantMinute <= 21 * 60)
    /\ (withinForSchedule # <<>> /\ withinForAppointment # <<>>)
       => IF instantHour = 21 /\ instantMinute = 0
          THEN withinForSchedule = <<TRUE>> /\ withinForAppointment = <<FALSE>>
          ELSE withinForSchedule = withinForAppointment

\* Both checks have answered at 21:00, and differently
C20_Witness ==
    /\ instantHour = 21 /\ instantMinute = 0
    /\ withinForSchedule = <<TRUE>> /\ withinForAppointment = <<FALSE>>

----------------------------------------------------------------------------
(* Properties of the requests: what is sent, when, and what the store      *)
(* holds afterwards.                                                       *)

\* The step appends a request to those in flight
requestIssued == Len(inflight') = Len(inflight) + 1

issued == inflight'[Len(inflight')]

\* Two intervals of instants share an instant
spansOverlap(from1, to1, from2, to2) == from1 < to2 /\ from2 < to1

\* C30: while a submit is in flight (loading is true) a press of the submit
\* button issues no create request, on either screen: at most one POST
\* results from one filled-in form.
C30_OneCreatePerSubmit ==
    [][(loading /\ requestIssued) => issued.method # "POST"]_vars

\* C26: with one admin client, no two stored shifts of the same employee
\* overlap.
C26_StoredShiftsDisjoint ==
    \A s1 \in shiftStore : \A s2 \in shiftStore :
        (s1._id # s2._id /\ s1.employee = s2.employee)
        => ~spansOverlap(ParseDate(s1.startAt), ParseDate(s1.endAt),
                         ParseDate(s2.startAt), ParseDate(s2.endAt))

\* C27: with one admin client, no two stored non-terminal appointments of the
\* same employee have overlapping effective intervals, the effective interval
\* being the one the overlap scan computes for a stored appointment.
C27_StoredAppointmentsDisjoint ==
    \A a1 \in apptStore : \A a2 \in apptStore :
        (/\ a1._id # a2._id
         /\ a1.assignedEmployee # Null
         /\ a1.assignedEmployee = a2.assignedEmployee
         /\ ~isTerminal(a1) /\ ~isTerminal(a2))
        => ~spansOverlap(itemStart(a1), itemEnd(a1), itemStart(a2), itemEnd(a2))

\* The appointment the backend would hold for the form as a new booking
formAsStored ==
    apptCreated(CHOOSE id \in ApptIds : \A a \in appointments : a._id # id,
                apptRequest)

\* The verdict on a stored appointment y submitted as a new booking against
\* a snapshot appts
verdictAsCandidate(y, appts) ==
    validateAppointment(y.customer, y.service._id, y.assignedEmployee,
                        y.scheduledAt, Null, appts, services, now)

\* C28: for a new booking X of the form and a live stored appointment Y of the
\* same employee, both passing the rules before the scan, X as candidate
\* against stored Y is answered EmployeeConflict if and only if Y as candidate
\* against stored X is.
C28_ConflictRoleSymmetric ==
    (ApptRan /\ editingId = Null /\ selectedEmployeeId # Null /\ apptReachesScan)
    => \A y \in appointments :
           (/\ y.assignedEmployee = selectedEmployeeId
            /\ ~isTerminal(y)
            /\ verdictAsCandidate(y, {}) = "Ok")
           => ((result = "errorScheduleConflict")
               <=> (verdictAsCandidate(y, {formAsStored})
                    = "errorScheduleConflict"))

\* C29: on the appointments screen no PATCH and no DELETE is issued for an
\* appointment that the snapshot loaded at that moment shows completed.
C29_NoWriteToCompleted ==
    [][(screen = "appointments" /\ requestIssued
        /\ issued.method \in {"PATCH", "DELETE"})
       => ~\E a \in appointments :
              a._id = issued.id /\ a.status = "completed"]_vars

\* C22: every interval accepted into the system has start < end: each stored
\* shift and each shift request sent has startAt < endAt, and the effective
\* interval of every accepted and of every stored appointment has positive
\* length.
C22_AcceptedIntervalsPositive ==
    /\ \A s \in shiftStore : ParseDate(s.startAt) < ParseDate(s.endAt)
    /\ (ShiftRan /\ result = "Ok") => ParseDate(startAt) < ParseDate(endAt)
    /\ \A a \in apptStore : itemStart(a) < itemEnd(a)
    /\ (ApptRan /\ result = "Ok") => candFrom < candTo

\* Two accepted shifts are stored, the later one starting before the earlier
C22_Witness ==
    /\ screen = "schedules"
    /\ \E s1 \in shiftStore : \E s2 \in shiftStore :
           /\ s1._id = "w1" /\ s2._id = "w2"
           /\ ParseDate(s2.startAt) < ParseDate(s1.startAt)

ShiftReasons ==
    { "errorScheduleRequired", "errorSchedulePast", "errorScheduleOutsideHours",
      "errorScheduleEndBeforeStart", "errorScheduleOverlapEmployee" }

\* C23: a POST or PATCH is issued only by a submit whose form passes every
\* rule, and carries the values that passed; a rejected submit issues no
\* request and leaves the loaded list, and the store, unchanged.
C23_ValidatedBeforeWrite ==
    [][/\ (requestIssued /\ issued.method \in {"POST", "PATCH"})
          => IF screen = "appointments"
             THEN /\ issued = apptRequest
                  /\ \A r \in 1..5 : ~apptRuleFails(r)
             ELSE /\ issued = shiftRequest
                  /\ \A reason \in ShiftReasons : ~shiftRuleFails(reason)
       /\ result' \notin {"none", "Ok"}
          => /\ inflight' = inflight
             /\ appointments' = appointments /\ schedules' = schedules
             /\ apptStore' = apptStore /\ shiftStore' = shiftStore]_vars

\* An accepted edit has issued its PATCH
C23_Witness ==
    /\ ApptRan /\ result = "Ok" /\ loading
    /\ Len(inflight) = 1 /\ inflight[1].method = "PATCH"
    /\ inflight[1].scheduledAt = scheduledAt

C21_OverlapSymmetric ==
    \A r \in overlapAnswer :
        /\ r.answer = (intervals[1][1] < intervals[2][2]
                       /\ intervals[2][1] < intervals[1][2])
        /\ \A q \in overlapAnswer : q.answer = r.answer

\* Both forms have answered in both directions, for two different intervals
\* that back onto each other
C21_Witness ==
    /\ \A f \in {"appointment", "shift"} : \A c \in {1, 2} :
           \E r \in overlapAnswer : r.form = f /\ r.candidate = c /\ ~r.answer
    /\ intervals[1][1] < intervals[1][2]
    /\ intervals[1][2] = intervals[2][1]
    /\ intervals[2][1] < intervals[2][2]

\* A request of the second device has been added to its requests in flight
otherIssued == Len(otherClient'.inflight) = Len(otherClient.inflight) + 1

otherRequest == otherClient'.inflight[Len(otherClient'.inflight)]

\* A booking request overlaps a live booking of its employee in a snapshot
apptRequestHits(req, appts) ==
    \E a \in appts :
        /\ a.assignedEmployee = req.assignedEmployeeId /\ ~isTerminal(a)
        /\ spansOverlap(itemStart(a), itemEnd(a), ParseDate(req.scheduledAt),
                        apptTargetEnd(services, req.serviceId, req.scheduledAt))

shiftRequestHits(req, scheds) ==
    \E s \in scheds :
        /\ s.employee = req.employeeId
        /\ spansOverlap(ParseDate(s.startAt), ParseDate(s.endAt),
                        ParseDate(req.startAt), ParseDate(req.endAt))

\* C24: validation gives exclusion against the snapshot its own device has
\* loaded and against nothing else: each device posts a booking only if it
\* overlaps no live booking of the employee in that device's snapshot, whatever
\* the store holds by then; two devices with stale snapshots can both pass
\* and leave two overlapping live bookings of one employee in the store (the
\* state of C24_Witness).
C24_ExclusionPerSnapshot ==
    [][/\ requestIssued
          => IF screen = "appointments"
             THEN issued.assignedEmployeeId = Null
                  \/ ~apptRequestHits(issued, appointments)
             ELSE ~shiftRequestHits(issued, schedules)
       /\ otherIssued
          => IF screen = "appointments"
             THEN ~apptRequestHits(otherRequest, otherClient.snapshot)
             ELSE ~shiftRequestHits(otherRequest, otherClient.snapshot)]_vars

\* Both devices passed validation, the backend took both writes, and the store
\* holds two scheduled appointments of one employee, one booked by each
\* device, whose intervals overlap
C24_Witness ==
    \E a \in apptStore : \E b \in apptStore :
        /\ a.customer = "c1" /\ b.customer = "c2"
        /\ a.assignedEmployee = b.assignedEmployee
        /\ a.status = "scheduled" /\ b.status = "scheduled"
        /\ spansOverlap(itemStart(a), itemEnd(a), itemStart(b), itemEnd(b))

====
